---- MODULE Spec2Model ----
(***************************************************************************)
(* bevy-discord-game-sdk (src/lib.rs): DiscordPlugin::build constructs the *)
(* Discord client, publishes it as a non-send resource and registers the   *)
(* run_discord_callbacks system; the engine then runs the registered       *)
(* systems once per tick.                                                  *)
(***************************************************************************)
EXTENDS Integers, Sequences, FiniteSets

\* ------------------------------------------------------------------ bounds
\* Registrations of the plugin on one builder.
MaxBuilds == 2
\* Ticks one engine run performs before the model stops it.
MaxTicks == 2

\* ------------------------------------------------------------ the universe
\* The two engine builders of one process, built one after the other.
Apps == {1, 2}
\* The identifier each builder's DiscordPlugin wraps (self.0): two different ones.
ClientIdOf(app) == 100 + app
\* The failures Discord::new can report.
NewErrors == {"NotFound", "InternalError"}
\* What Discord::new(id) can return for the k-th construction on a builder.
NewResults(id, k) ==
    {[ok |-> TRUE, client |-> [client_id |-> id, serial |-> k], err |-> "none"]}
    \cup {[ok |-> FALSE, client |-> [client_id |-> id, serial |-> 0], err |-> e] :
              e \in NewErrors}
\* What Discord::run_callbacks can return.
CallbackResults == {"Ok", "Err"}
\* The threads of the engine's executor; build and run happen on "main".
Threads == {"main", "worker"}

\* The systems of a schedule.
Poll == "run_discord_callbacks"
\* The game's own systems: one that reads the client, one that does not.
UserSystems == <<"discord_system", "game_system">>

VARIABLES
    phase,          \* per builder: "building", then "running" until the process ends
    registry,       \* per builder: the non-send resources of type Discord
    systems,        \* per builder: the per-tick schedule, in registration order
    log,            \* per builder: the records its builds handed to bevy_log
    builds,         \* per builder: what each Discord::new call returned
    buildPanicked,  \* per builder: a build call unwound instead of returning
    inTick,         \* per builder: a tick is in progress
    pending,        \* per builder: schedule positions not yet started this tick
    running,        \* per builder: per thread, the position it executes (0: idle)
    ticks,          \* per builder: completed ticks
    pollRuns,       \* per builder: invocations of the poll system
    calls,          \* per builder: invocations of Discord::run_callbacks
    callsThisTick,  \* per builder: the same, within the current tick
    lastResult,     \* per builder: what the last run_callbacks returned
    engineSaw       \* per builder: what the last poll invocation handed the engine

vars == <<phase, registry, systems, log, builds, buildPanicked, inTick, pending,
          running, ticks, pollRuns, calls, callsThisTick, lastResult, engineSaw>>

buildVars == <<registry, systems, log, builds, buildPanicked>>
tickVars == <<inTick, pending, running, ticks, pollRuns, calls, callsThisTick,
              lastResult, engineSaw>>

\* ---------------------------------------------------------------- helpers
RECURSIVE CountOf(_, _)
CountOf(seq, x) ==
    IF seq = <<>> THEN 0
    ELSE (IF Head(seq) = x THEN 1 ELSE 0) + CountOf(Tail(seq), x)

\* The poll systems a schedule holds.
PollCount(sys) == CountOf(sys, Poll)

\* The builds of a history whose Discord::new succeeded.
RECURSIVE OkCount(_)
OkCount(hist) ==
    IF hist = <<>> THEN 0
    ELSE (IF Head(hist).ok THEN 1 ELSE 0) + OkCount(Tail(hist))

\* The client of the last successful build of a history (none: the empty set).
RECURSIVE LastOkClient(_)
LastOkClient(hist) ==
    IF hist = <<>> THEN {}
    ELSE IF hist[Len(hist)].ok THEN {hist[Len(hist)].client}
    ELSE LastOkClient(SubSeq(hist, 1, Len(hist) - 1))

\* No engine is inside run(): run() keeps the main thread until the process ends.
NoneRunning == \A b \in Apps : phase[b] # "running"

\* ------------------------------------------------- the engine's operations
\* AppBuilder::insert_non_send_resource: the slot is keyed by type, so the
\* inserted client replaces whatever client the slot held.
InsertNonSendResource(reg, client) == {client}

\* AppBuilder::add_system: appends one system to the per-tick schedule.
AddSystem(sys, s) == Append(sys, s)

\* error!(...): one ERROR record holding the formatted message.
ErrorRecord(err) ==
    [level |-> "ERROR", message |-> <<"Failed to initialize Discord client: ", err>>]

\* ------------------------------------------------- DiscordPlugin::build
\* The builder the plugin writes to: the one handed to build.
BuildTargetShared(app) == 1
BuildTarget(app) == app

\* The Ok arm: the client goes into the registry.
BuildRegistryKeepsOld(reg, res) == IF res.ok THEN reg \cup {res.client} ELSE reg
BuildRegistry(reg, res) ==
    IF res.ok THEN InsertNonSendResource(reg, res.client) ELSE reg

\* The Ok arm: the poll system goes on the schedule.
BuildSystemsNever(sys, res) == sys
BuildSystems(sys, res) ==
    IF res.ok THEN AddSystem(sys, Poll) ELSE sys

\* The Err arm: one error record.
BuildLogSilent(lg, res) == lg
BuildLog(lg, res) ==
    IF res.ok THEN lg ELSE Append(lg, ErrorRecord(res.err))

\* Neither arm unwinds: the Err arm logs and falls through.
BuildPanicsOnErr(res) == ~res.ok
BuildPanics(res) == FALSE

Build(a) ==
    /\ phase[a] = "building"
    /\ NoneRunning
    /\ ~buildPanicked[a]
    /\ Len(builds[a]) < MaxBuilds
    /\ \E res \in NewResults(ClientIdOf(a), Len(builds[a]) + 1) :
        LET t == BuildTarget(a) IN
        /\ builds' = [builds EXCEPT ![a] = Append(@, res)]
        /\ registry' = [registry EXCEPT ![t] = BuildRegistry(@, res)]
        /\ systems' = [systems EXCEPT ![t] = BuildSystems(@, res)]
        /\ log' = [log EXCEPT ![t] = BuildLog(@, res)]
        /\ buildPanicked' = [buildPanicked EXCEPT ![a] = BuildPanics(res)]
    /\ UNCHANGED <<phase, tickVars>>

\* ------------------------------------------------- run_discord_callbacks
\* The system's parameter is NonSend<Discord>: the engine runs it on the thread
\* that owns the resource, the main thread.
PollParamSend == FALSE
PollParamNonSend == TRUE

\* A system with a non-send parameter.
IsNonSend(s) ==
    CASE s = Poll -> PollParamNonSend
      [] s = "discord_system" -> TRUE
      [] OTHER -> FALSE

\* A system that reads the client handle.
AccessesClient(s) == s \in {Poll, "discord_system"}

\* The executor starts a non-send system on the main thread only.
CanRunOn(s, t) == IsNonSend(s) => t = "main"

\* The body: one client.run_callbacks() per invocation.
RunCallbacksCallsNone(n) == n
RunCallbacksCallsTwice(n) == n + 2
RunCallbacksCalls(n) == n + 1

\* The system returns unit: the Result of run_callbacks is dropped by the `;`.
PollReturn(res) == "unit"

\* The system borrows the client; the registry keeps it whatever the result.
PollRegistryDropOnErr(reg, res) == IF res = "Err" THEN {} ELSE reg
PollRegistry(reg, res) == reg

\* ----------------------------------------------------------- the engine
\* App::run: the builder's app starts ticking.
Run(a) ==
    /\ phase[a] = "building"
    /\ NoneRunning
    /\ ~buildPanicked[a]
    /\ phase' = [phase EXCEPT ![a] = "running"]
    /\ UNCHANGED <<buildVars, tickVars>>

\* A tick starts: every system of the schedule is to run once.
TickBegin(a) ==
    /\ phase[a] = "running"
    /\ ~inTick[a]
    /\ ticks[a] < MaxTicks
    /\ inTick' = [inTick EXCEPT ![a] = TRUE]
    /\ pending' = [pending EXCEPT ![a] = DOMAIN systems[a]]
    /\ callsThisTick' = [callsThisTick EXCEPT ![a] = 0]
    /\ UNCHANGED <<phase, buildVars, running, ticks, pollRuns, calls, lastResult,
                   engineSaw>>

\* The executor starts a pending system on an idle thread it may run on.
StartSystem(a) ==
    /\ phase[a] = "running"
    /\ inTick[a]
    /\ \E i \in pending[a], t \in Threads :
        /\ running[a][t] = 0
        /\ CanRunOn(systems[a][i], t)
        /\ running' = [running EXCEPT ![a][t] = i]
        /\ pending' = [pending EXCEPT ![a] = @ \ {i}]
    /\ UNCHANGED <<phase, buildVars, inTick, ticks, pollRuns, calls, callsThisTick,
                   lastResult, engineSaw>>

\* A running poll system executes its body and returns.
FinishPoll(a) ==
    /\ phase[a] = "running"
    /\ \E t \in Threads, res \in CallbackResults :
        /\ running[a][t] # 0
        /\ systems[a][running[a][t]] = Poll
        /\ running' = [running EXCEPT ![a][t] = 0]
        /\ pollRuns' = [pollRuns EXCEPT ![a] = @ + 1]
        /\ calls' = [calls EXCEPT ![a] = RunCallbacksCalls(@)]
        /\ callsThisTick' =
               [callsThisTick EXCEPT ![a] = @ + (RunCallbacksCalls(calls[a]) - calls[a])]
        /\ lastResult' = [lastResult EXCEPT ![a] = res]
        /\ engineSaw' = [engineSaw EXCEPT ![a] = PollReturn(res)]
        /\ registry' = [registry EXCEPT ![a] = PollRegistry(@, res)]
    /\ UNCHANGED <<phase, systems, log, builds, buildPanicked, inTick, pending, ticks>>

\* A running system of the game returns.
FinishUser(a) ==
    /\ phase[a] = "running"
    /\ \E t \in Threads :
        /\ running[a][t] # 0
        /\ systems[a][running[a][t]] # Poll
        /\ running' = [running EXCEPT ![a][t] = 0]
    /\ UNCHANGED <<phase, buildVars, inTick, pending, ticks, pollRuns, calls,
                   callsThisTick, lastResult, engineSaw>>

\* The tick ends when every system has run.
TickEnd(a) ==
    /\ phase[a] = "running"
    /\ inTick[a]
    /\ pending[a] = {}
    /\ \A t \in Threads : running[a][t] = 0
    /\ inTick' = [inTick EXCEPT ![a] = FALSE]
    /\ ticks' = [ticks EXCEPT ![a] = @ + 1]
    /\ UNCHANGED <<phase, buildVars, pending, running, pollRuns, calls, callsThisTick,
                   lastResult, engineSaw>>

\* ------------------------------------------------------------------- Init
Init ==
    /\ phase = [a \in Apps |-> "building"]
    /\ registry = [a \in Apps |-> {}]
    /\ systems = [a \in Apps |-> UserSystems]
    /\ log = [a \in Apps |-> <<>>]
    /\ builds = [a \in Apps |-> <<>>]
    /\ buildPanicked = [a \in Apps |-> FALSE]
    /\ inTick = [a \in Apps |-> FALSE]
    /\ pending = [a \in Apps |-> {}]
    /\ running = [a \in Apps |-> [t \in Threads |-> 0]]
    /\ ticks = [a \in Apps |-> 0]
    /\ pollRuns = [a \in Apps |-> 0]
    /\ calls = [a \in Apps |-> 0]
    /\ callsThisTick = [a \in Apps |-> 0]
    /\ lastResult = [a \in Apps |-> "none"]
    /\ engineSaw = [a \in Apps |-> "none"]

Next ==
    \E a \in Apps :
        \/ Build(a)
        \/ Run(a)
        \/ TickBegin(a)
        \/ StartSystem(a)
        \/ FinishPoll(a)
        \/ FinishUser(a)
        \/ TickEnd(a)

Spec == Init /\ [][Next]_vars

\* ------------------------------------------------------------ properties
\* The threads on which a system that reads the client is executing.
ClientThreads(a) ==
    {t \in Threads : running[a][t] # 0 /\ AccessesClient(systems[a][running[a][t]])}

\* The shim's state on a builder, read off the registry, the schedule and the log.
Lifecycle(a) ==
    IF registry[a] # {} /\ PollCount(systems[a]) > 0 THEN "Active"
    ELSE IF Len(log[a]) > 0 THEN "Disabled"
    ELSE "Uninitialized"

\* C1: after one build on a builder whose Discord::new succeeded, the registry
\* holds exactly one client, the one just constructed, and the schedule holds
\* the poll system.
C1_BuildOkRegisters ==
    \A a \in Apps :
        (Len(builds[a]) = 1 /\ builds[a][1].ok) =>
            /\ Cardinality(registry[a]) = 1
            /\ registry[a] = {builds[a][1].client}
            /\ PollCount(systems[a]) = 1

C1_Witness ==
    \E a \in Apps :
        /\ phase[a] = "building"
        /\ Len(builds[a]) = 1
        /\ builds[a][1].ok
        /\ registry[a] # {}

\* C2: while every build on a builder has failed, its registry holds no client,
\* its schedule holds no poll system, and each failed build has left exactly one
\* ERROR record carrying that failure's description; in general the records
\* are as many as the failed builds.
C2_BuildErrLogsOnce ==
    \A a \in Apps :
        /\ Len(log[a]) = Len(builds[a]) - OkCount(builds[a])
        /\ OkCount(builds[a]) = 0 =>
               /\ registry[a] = {}
               /\ PollCount(systems[a]) = 0
               /\ \A k \in DOMAIN builds[a] :
                      /\ log[a][k].level = "ERROR"
                      /\ log[a][k].message[2] = builds[a][k].err

C2_Witness ==
    \E a \in Apps :
        /\ Len(builds[a]) = 1
        /\ ~builds[a][1].ok
        /\ Len(log[a]) = 1
        /\ log[a][1].message[2] = "NotFound"

\* C3: no build unwinds, whatever Discord::new returned, and a builder that is
\* still building can go on to run.
C3_BuildNeverPanics ==
    \A a \in Apps :
        /\ ~buildPanicked[a]
        /\ (phase[a] = "building" /\ NoneRunning) => ENABLED Run(a)

C3_Witness ==
    \E a \in Apps :
        /\ phase[a] = "running"
        /\ Len(builds[a]) = 2
        /\ OkCount(builds[a]) = 1

\* C4: on a builder with one successful registration, run_callbacks has been
\* called exactly once per completed tick, plus once more while the current
\* tick's poll has already run; every poll invocation is exactly one call.
C4_OneCallPerTick ==
    \A a \in Apps :
        /\ calls[a] = pollRuns[a]
        /\ OkCount(builds[a]) = 1 =>
               /\ ~inTick[a] => calls[a] = ticks[a]
               /\ inTick[a] => calls[a] = ticks[a] + callsThisTick[a]
               /\ (inTick[a] /\ pending[a] = {} /\ \A t \in Threads : running[a][t] = 0)
                      => callsThisTick[a] = 1

C4_Witness ==
    \E a \in Apps :
        /\ OkCount(builds[a]) = 1
        /\ ticks[a] = 2
        /\ calls[a] = 2

\* C5: a registry never holds more than one client, and once a build has
\* succeeded it holds the client of the last successful build.
C5_AtMostOneClient ==
    \A a \in Apps :
        /\ Cardinality(registry[a]) <= 1
        /\ registry[a] = LastOkClient(builds[a])

C5_Witness ==
    \E a \in Apps :
        /\ OkCount(builds[a]) = 2
        /\ registry[a] = {builds[a][2].client}

\* C6, as stated: within one tick run_callbacks is called at most once, whatever
\* registrations were made on the builder.
C6_AtMostOncePerTick ==
    \A a \in Apps : callsThisTick[a] <= 1

\* C6, amended: within one tick run_callbacks is called once per successful
\* registration on the builder: never more than that, exactly that many times
\* when the tick is complete, hence at most once when at most one registration
\* succeeded.
C6_OncePerRegistrationPerTick ==
    \A a \in Apps :
        /\ callsThisTick[a] <= OkCount(builds[a])
        /\ (ticks[a] > 0 /\ ~inTick[a]) => callsThisTick[a] = OkCount(builds[a])
        /\ OkCount(builds[a]) <= 1 => callsThisTick[a] <= 1

C6_Witness ==
    \E a \in Apps :
        /\ OkCount(builds[a]) = 2
        /\ ticks[a] = 1
        /\ ~inTick[a]
        /\ callsThisTick[a] = 2

\* C7: at any moment at most one system that reads the client is executing,
\* and it executes on the main thread.
C7_MainThreadOnly ==
    \A a \in Apps :
        /\ Cardinality(ClientThreads(a)) <= 1
        /\ ClientThreads(a) \subseteq {"main"}

C7_Witness ==
    \E a \in Apps :
        /\ running[a]["main"] # 0
        /\ systems[a][running[a]["main"]] = Poll
        /\ running[a]["worker"] # 0
        /\ "discord_system" \in {systems[a][i] : i \in pending[a]}

\* One step of the shim's lifecycle on every builder (C8_LifecyclePermanent).
C8_Step ==
    \A a \in Apps :
        /\ Lifecycle(a)' = "Uninitialized" => Lifecycle(a) = "Uninitialized"
        /\ Lifecycle(a) = "Active" => Lifecycle(a)' = "Active"
        /\ (Lifecycle(a) = "Uninitialized" /\ Lifecycle(a)' # "Uninitialized") =>
               /\ Len(builds'[a]) = Len(builds[a]) + 1
               /\ Lifecycle(a)' = IF builds'[a][Len(builds'[a])].ok THEN "Active"
                                  ELSE "Disabled"
        /\ Len(builds'[a]) = Len(builds[a]) => Lifecycle(a)' = Lifecycle(a)
        /\ phase[a] = "running" =>
               /\ phase'[a] = "running"
               /\ registry'[a] = registry[a]
               /\ systems'[a] = systems[a]
               /\ log'[a] = log[a]
               /\ builds'[a] = builds[a]
        /\ (Lifecycle(a) = "Active" /\ ticks'[a] = ticks[a] + 1) => callsThisTick[a] >= 1

C9_Step ==
    \A a \in Apps :
        /\ builds'[a] = builds[a] =>
               /\ systems'[a] = systems[a]
               /\ Len(log'[a]) = Len(log[a])
               /\ Cardinality(registry'[a]) = Cardinality(registry[a])
        /\ builds'[a] # builds[a] =>
               LET res == builds'[a][Len(builds'[a])] IN
               IF res.ok
               THEN /\ registry'[a] = {res.client}
                    /\ res.client.client_id = ClientIdOf(a)
                    /\ PollCount(systems'[a]) = PollCount(systems[a]) + 1
                    /\ Len(log'[a]) = Len(log[a])
               ELSE /\ registry'[a] = registry[a]
                    /\ systems'[a] = systems[a]
                    /\ Len(log'[a]) = Len(log[a]) + 1

\* C9: a build changes the registry, the schedule and the log of no builder but
\* its own, and what it does to its own follows from what Discord::new returned
\* for its own identifier: a client with that identifier and one more poll
\* system, or one more log record and nothing else.
C9_BuildsIndependent == [][C9_Step]_vars

C9_Witness ==
    /\ Len(builds[1]) = 1 /\ builds[1][1].ok
    /\ Len(builds[2]) = 1 /\ ~builds[2][1].ok
    /\ registry[1] # {} /\ PollCount(systems[1]) = 1 /\ Len(log[1]) = 0
    /\ registry[2] = {} /\ PollCount(systems[2]) = 0 /\ Len(log[2]) = 1

\* C10, as stated: an error returned by run_callbacks reaches the engine as the
\* outcome of the poll system's invocation, and the client and the poll system
\* stay registered.
C10_ErrorReachesEngine ==
    \A a \in Apps :
        lastResult[a] = "Err" =>
            /\ engineSaw[a] = "Err"
            /\ registry[a] # {}
            /\ PollCount(systems[a]) > 0
====
